---- MODULE Spec2Model ----
(***************************************************************************)
(* Sakura Haruna bot (src/main.py): the handlers the bot registers with    *)
(* the python-telegram-bot Application, the ConversationHandler that keeps *)
(* one state per (chat, user), and the updates the Application dispatches  *)
(* to them.                                                                *)
(*                                                                         *)
(* The ConversationHandler follows the library's rule: while no            *)
(* conversation is under way for a key only the entry points are tried;    *)
(* the handlers of a state and the fallbacks are tried only inside a       *)
(* conversation; a callback that returns END removes the key.              *)
(*                                                                         *)
(* Spec is the bot as the Application runs it. HandlerSpec adds direct      *)
(* calls of the conversation's callbacks on the updates their filters      *)
(* accept, for the properties of a callback by itself; the state of the    *)
(* bot is left as it is, and what the ConversationHandler would store for  *)
(* the callback's return value is recorded next to it.                     *)
(*                                                                         *)
(* Environment assumptions of this model:                                  *)
(*  - updates are new messages and button presses (no edited messages, no  *)
(*    channel posts);                                                      *)
(*  - sending a reply, editing a message and answering a callback query    *)
(*    succeed; the calls that may fail are the ones the handlers guard     *)
(*    with try/except: get_chat_member, the moderation calls and the       *)
(*    completion request.                                                  *)
(***************************************************************************)
EXTENDS Integers, Sequences, FiniteSets, TLC

\* ------------------------------------------------------------------ bounds
\* Number of ordinary (non-admin) members of the group chat.
MaxMembers == 2

\* ------------------------------------------------------- program constants
CHAT_WITH_SAKURA == 1
\* ConversationHandler.END, the value start and the menu handlers return.
END == -1
\* Python's None where a conversation state is expected: a key absent from
\* the ConversationHandler's dict, a handler that returns nothing.
None == 0
\* No handler accepted the update.
NoHandler == "None"

\* ------------------------------------------------------------- the chats
\* The users: the ordinary members of the group, its owner and one of its
\* administrators.
Members == 1 .. MaxMembers
Owner == MaxMembers + 1
Admin == MaxMembers + 2
Users == {Owner, Admin} \cup Members
\* reply_to_message is None: the message replies to nobody.
NoUser == 0

Chats == {"grp", "pm"}
ChatType(chat) == IF chat = "grp" THEN "group" ELSE "private"

\* The key of a conversation: (chat id, user id).
Sessions == Chats \X Users

CommandNames == {"start", "kick", "ban", "mute", "help"}
MembershipCommands == {"kick", "ban", "mute"}
\* callback_data of the buttons the bot shows (the last one stands for a
\* stale button of an older version).
MainMenuTags == <<"chat_start", "manage_group", "help_menu">>
ManageMenuTags == <<"kick_user", "ban_user", "mute_user", "unmute_user", "main_menu">>
HelpMenuTags == <<"main_menu">>
Range(s) == {s[i] : i \in 1 .. Len(s)}
CallbackTags == Range(MainMenuTags) \cup Range(ManageMenuTags) \cup {"stale"}
Bodies == {"hello", "ping"}

VARIABLES
    conversations,  \* ConversationHandler._conversations: Sessions -> None or a state
    status,         \* the platform's member status of each user in the group
    last            \* the last update processed, what its handler did, the
                    \* ConversationHandler's dict as storing the handler's
                    \* return value leaves it (stored), and how
                    \* it follows the update before it (after_chat_start: that
                    \* one was the Chat button of the same session;
                    \* repeated_mute: that one was a /mute that silenced the
                    \* same target)

vars == <<conversations, status, last>>

\* ---------------------------------------------------------------- replies
Reply(via, text, buttons) == [via |-> via, text |-> text, buttons |-> buttons]
Call(method, chat, user) == [method |-> method, chat |-> chat, user |-> user]

\* What running a handler on an update produced.
Result(ret, replies, calls, requests, raised) ==
    [ret |-> ret, replies |-> replies, calls |-> calls, requests |-> requests,
     raised |-> raised]

\* ------------------------------------------------------------ the handlers
\* is_admin as it would be if it replied through update.effective_message,
\* which a button press has too.
is_admin_replying_to_any_update(u, env) ==
    IF ChatType(u.chat) \in {"group", "supergroup"}
    THEN IF env.lookup = "error"
         THEN [ok |-> FALSE, replies |-> <<>>]
         ELSE IF status[u.user] \in {"creator", "administrator"}
              THEN [ok |-> TRUE, replies |-> <<>>]
              ELSE [ok |-> FALSE,
                    replies |-> <<Reply("reply_text", "must_be_admin_command", <<>>)>>]
    ELSE [ok |-> FALSE, replies |-> <<>>]

\* is_admin: <<the value returned, the replies sent>>.
is_admin(u, env) ==
    IF ChatType(u.chat) \in {"group", "supergroup"}
    THEN IF env.lookup = "error"
         THEN [ok |-> FALSE, replies |-> <<>>]
         ELSE IF status[u.user] \in {"creator", "administrator"}
              THEN [ok |-> TRUE, replies |-> <<>>]
              ELSE IF u.kind = "callback"
                   \* update.message is None: the AttributeError is caught
                   THEN [ok |-> FALSE, replies |-> <<>>]
                   ELSE [ok |-> FALSE,
                         replies |-> <<Reply("reply_text", "must_be_admin_command", <<>>)>>]
    ELSE [ok |-> FALSE, replies |-> <<>>]

start(u, env) ==
    Result(END, <<Reply("reply_text", "welcome", MainMenuTags)>>, <<>>, <<>>, FALSE)

show_manage_menu(u, env) ==
    LET a == is_admin(u, env) IN
    IF ~a.ok
    THEN Result(END,
                a.replies \o <<Reply("reply_text", "must_be_admin_menu", <<>>)>>,
                <<>>, <<>>, FALSE)
    ELSE Result(END, <<Reply("edit_message_text", "management", ManageMenuTags)>>,
                <<>>, <<>>, FALSE)

help_menu(u, env) ==
    Result(END, <<Reply("edit_message_text", "help", HelpMenuTags)>>, <<>>, <<>>, FALSE)

main_menu(u, env) ==
    Result(END, <<Reply("edit_message_text", "welcome_back", MainMenuTags)>>,
           <<>>, <<>>, FALSE)

start_chat_mode(u, env) ==
    Result(CHAT_WITH_SAKURA, <<Reply("edit_message_text", "lets_chat", <<>>)>>,
           <<>>, <<>>, FALSE)

\* The request as it would be with one chat object kept between the calls:
\* the text of the call before is part of it.
CompletionRequest_with_memory(body) ==
    [system |-> "SYSTEM_PROMPT", config |-> "generation_config",
     history |-> IF last.handler = "handle_chat" THEN <<last.update.data>> ELSE <<>>,
     message |-> body]

\* The completion request handle_chat makes: a new chat (empty history) on a
\* model built from the fixed persona and generation parameters.
CompletionRequest(body) ==
    [system |-> "SYSTEM_PROMPT", config |-> "generation_config",
     history |-> <<>>, message |-> body]

handle_chat(u, env) ==
    IF u.data = ""
    THEN Result(CHAT_WITH_SAKURA, <<>>, <<>>, <<>>, FALSE)
    ELSE IF env.gemini = "ok"
         THEN Result(CHAT_WITH_SAKURA,
                     <<Reply("reply_text", "gemini_response", <<>>)>>,
                     <<>>, <<CompletionRequest(u.data)>>, FALSE)
         ELSE Result(CHAT_WITH_SAKURA,
                     <<Reply("reply_text", "fallback", <<>>)>>,
                     <<>>, <<CompletionRequest(u.data)>>, FALSE)

\* The body shared by kick_user, ban_user and mute_user: the authorization
\* check, the reply target, the moderation call inside try/except.
\* env.api = "missing": the bot object has no such method, the attribute
\* lookup raises before any request is made and the except branch replies.
membership_command(u, env, method, word) ==
    LET a == is_admin(u, env) IN
    IF ~a.ok
    THEN Result(None, a.replies, <<>>, <<>>, FALSE)
    ELSE IF u.reply_to # NoUser
         THEN IF env.api = "missing"
              THEN Result(None, <<Reply("reply_text", "could_not_" \o word, <<>>)>>,
                          <<>>, <<>>, FALSE)
              ELSE IF env.api = "ok"
                   THEN Result(None, <<Reply("reply_text", word \o "_done", <<>>)>>,
                               <<Call(method, u.chat, u.reply_to)>>, <<>>, FALSE)
                   ELSE Result(None, <<Reply("reply_text", "could_not_" \o word, <<>>)>>,
                               <<Call(method, u.chat, u.reply_to)>>, <<>>, FALSE)
         ELSE Result(None, <<Reply("reply_text", "usage_" \o word, <<>>)>>,
                     <<>>, <<>>, FALSE)

kick_user(u, env) == membership_command(u, env, "kick_chat_member", "kick")

\* ban_user as it would be without the test of reply_to_message.
ban_user_without_target_test(u, env) ==
    LET a == is_admin(u, env) IN
    IF ~a.ok
    THEN Result(None, a.replies, <<>>, <<>>, FALSE)
    ELSE IF env.api = "ok"
         THEN Result(None, <<Reply("reply_text", "ban_done", <<>>)>>,
                     <<Call("ban_chat_member", u.chat, u.reply_to)>>, <<>>, FALSE)
         ELSE Result(None, <<Reply("reply_text", "could_not_ban", <<>>)>>,
                     <<Call("ban_chat_member", u.chat, u.reply_to)>>, <<>>, FALSE)

ban_user(u, env) == membership_command(u, env, "ban_chat_member", "ban")

\* mute_user as it would be if it refused to mute a target already muted.
mute_user_refusing_repeat(u, env) ==
    IF is_admin(u, env).ok /\ u.reply_to # NoUser /\ status[u.reply_to] = "restricted"
    THEN Result(None, <<Reply("reply_text", "could_not_mute", <<>>)>>, <<>>, <<>>, FALSE)
    ELSE membership_command(u, env, "restrict_chat_member", "mute")

\* mute_user as it would be without the try/except around the call.
mute_user_uncaught(u, env) ==
    IF is_admin(u, env).ok /\ u.reply_to # NoUser /\ env.api = "error"
    THEN Result(None, <<>>, <<Call("restrict_chat_member", u.chat, u.reply_to)>>,
                <<>>, TRUE)
    ELSE membership_command(u, env, "restrict_chat_member", "mute")

mute_user(u, env) == membership_command(u, env, "restrict_chat_member", "mute")

\* ------------------------------------------------------------ the dispatch
\* The filters of the handlers main() registers.
IsCommand(u, name) == u.kind = "command" /\ u.data = name
IsCallback(u, tag) == u.kind = "callback" /\ u.data = tag
\* filters.TEXT & ~filters.COMMAND
IsText(u) == u.kind = "text" /\ u.data # ""

\* states={CHAT_WITH_SAKURA: [MessageHandler(TEXT & ~COMMAND, handle_chat)]}
StateHandler(state, u) ==
    IF state = CHAT_WITH_SAKURA /\ IsText(u) THEN "handle_chat" ELSE NoHandler

\* fallbacks=[CallbackQueryHandler(..., pattern="^tag$"), ...], in order
Fallback(u) ==
    IF IsCallback(u, "chat_start") THEN "start_chat_mode"
    ELSE IF IsCallback(u, "manage_group") THEN "show_manage_menu"
    ELSE IF IsCallback(u, "help_menu") THEN "help_menu"
    ELSE IF IsCallback(u, "main_menu") THEN "main_menu"
    ELSE NoHandler

\* The entry points as they would be with the four button handlers listed
\* among them, next to /start.
EntryPoint_with_buttons(u) == IF IsCommand(u, "start") THEN "start" ELSE Fallback(u)

\* entry_points=[CommandHandler("start", start)]
EntryPoint(u) == IF IsCommand(u, "start") THEN "start" ELSE NoHandler

\* The handler the ConversationHandler built in main() picks for an update of
\* a conversation in `state` (ConversationHandler.check_update; allow_reentry
\* is left at its default, False): with no conversation under way only the
\* entry points are tried; inside a conversation the handlers of its state,
\* then the fallbacks.
conversation_handler(state, u) ==
    IF state = None
    THEN EntryPoint(u)
    ELSE IF StateHandler(state, u) # NoHandler
         THEN StateHandler(state, u)
         ELSE Fallback(u)

\* The dispatch as it would be with the registration of /mute left out.
Dispatch_without_mute(state, u) ==
    IF conversation_handler(state, u) # NoHandler
    THEN [handler |-> conversation_handler(state, u), conv |-> TRUE]
    ELSE IF IsCommand(u, "kick") THEN [handler |-> "kick_user", conv |-> FALSE]
    ELSE IF IsCommand(u, "ban") THEN [handler |-> "ban_user", conv |-> FALSE]
    ELSE [handler |-> NoHandler, conv |-> FALSE]

\* The dispatch as it would be with one more handler on the application, a
\* CallbackQueryHandler without a pattern that shows the main menu.
Dispatch_with_catch_all_callback(state, u) ==
    IF conversation_handler(state, u) # NoHandler
    THEN [handler |-> conversation_handler(state, u), conv |-> TRUE]
    ELSE IF IsCommand(u, "kick") THEN [handler |-> "kick_user", conv |-> FALSE]
    ELSE IF IsCommand(u, "ban") THEN [handler |-> "ban_user", conv |-> FALSE]
    ELSE IF IsCommand(u, "mute") THEN [handler |-> "mute_user", conv |-> FALSE]
    ELSE IF u.kind = "callback" THEN [handler |-> "main_menu", conv |-> FALSE]
    ELSE [handler |-> NoHandler, conv |-> FALSE]

\* The dispatch as it would be with handle_chat also registered on the
\* application, for every text that is not a command.
Dispatch_with_chat_handler(state, u) ==
    IF conversation_handler(state, u) # NoHandler
    THEN [handler |-> conversation_handler(state, u), conv |-> TRUE]
    ELSE IF IsCommand(u, "kick") THEN [handler |-> "kick_user", conv |-> FALSE]
    ELSE IF IsCommand(u, "ban") THEN [handler |-> "ban_user", conv |-> FALSE]
    ELSE IF IsCommand(u, "mute") THEN [handler |-> "mute_user", conv |-> FALSE]
    ELSE IF IsText(u) THEN [handler |-> "handle_chat", conv |-> FALSE]
    ELSE [handler |-> NoHandler, conv |-> FALSE]

\* application.add_handler(...), all in group 0: the first handler whose
\* check accepts the update handles it, and no other.
Dispatch(state, u) ==
    IF conversation_handler(state, u) # NoHandler
    THEN [handler |-> conversation_handler(state, u), conv |-> TRUE]
    ELSE IF IsCommand(u, "kick") THEN [handler |-> "kick_user", conv |-> FALSE]
    ELSE IF IsCommand(u, "ban") THEN [handler |-> "ban_user", conv |-> FALSE]
    ELSE IF IsCommand(u, "mute") THEN [handler |-> "mute_user", conv |-> FALSE]
    ELSE [handler |-> NoHandler, conv |-> FALSE]

\* An update no handler accepts is dropped.
Dropped == Result(None, <<>>, <<>>, <<>>, FALSE)

Run(handler, u, env) ==
    CASE handler = "start" -> start(u, env)
      [] handler = "show_manage_menu" -> show_manage_menu(u, env)
      [] handler = "help_menu" -> help_menu(u, env)
      [] handler = "main_menu" -> main_menu(u, env)
      [] handler = "start_chat_mode" -> start_chat_mode(u, env)
      [] handler = "handle_chat" -> handle_chat(u, env)
      [] handler = "kick_user" -> kick_user(u, env)
      [] handler = "ban_user" -> ban_user(u, env)
      [] handler = "mute_user" -> mute_user(u, env)
      [] OTHER -> Dropped

\* The state the conversation is left in: a handler of the conversation that
\* returns END ends it, one that returns a state enters it; the handlers
\* registered on the application itself have no say.
NewState(state, d, res) ==
    IF d.conv /\ ~res.raised
    THEN IF res.ret = END THEN None
         ELSE IF res.ret # None THEN res.ret
         ELSE state
    ELSE state

\* The conversation as it would be kept with one state per chat, shared by
\* the users of the chat (ConversationHandler(per_user=False)).
UpdateConversations_per_chat(convs, key, value) ==
    [s \in Sessions |-> IF s[1] = key[1] THEN value ELSE convs[s]]

\* The ConversationHandler keeps one state per key (chat, user), its default
\* (per_chat and per_user): a callback that returns a state or END writes
\* the state of the key of its update and no other.
UpdateConversations(convs, key, value) == [convs EXCEPT ![key] = value]

\* The ConversationHandler's dict after the handler d picked for an update of
\* `key` returned res: the dict is written only when a callback of the
\* ConversationHandler itself returned a state or END.
Stored(convs, key, d, res) ==
    IF d.conv /\ ~res.raised /\ res.ret # None
    THEN UpdateConversations(convs, key, NewState(convs[key], d, res))
    ELSE convs

\* ----------------------------------------------------------- the platform
\* What a moderation call that the platform accepted does to its target.
StatusAfter(method, old) ==
    IF method \in {"kick_chat_member", "ban_chat_member"} THEN "kicked"
    ELSE IF method = "restrict_chat_member" /\ old # "kicked" THEN "restricted"
    ELSE old

\* The platform refuses to act on the owner and on administrators.
Accepts(method, target) == status[target] \notin {"creator", "administrator"}

\* A user can write in the group unless removed or muted; a private chat
\* with the bot is always open.
CanWrite(chat, user) ==
    chat = "pm" \/ status[user] \in {"creator", "administrator", "member"}
CanPress(chat, user) == chat = "pm" \/ status[user] # "kicked"

\* ---------------------------------------------------------------- updates
Update(kind, data, chat, user, reply_to) ==
    [kind |-> kind, data |-> data, chat |-> chat, user |-> user, reply_to |-> reply_to]

NoUpdate == Update("none", "", "pm", NoUser, NoUser)

\* What the outside world answers while an update is handled: get_chat_member
\* (lookup), the moderation call (api), the completion request (gemini).
Env(lookup, api, gemini) == [lookup |-> lookup, api |-> api, gemini |-> gemini]

NoEnv == Env("ok", "error", "ok")

Init ==
    /\ conversations = [s \in Sessions |-> None]
    /\ status = [x \in Users |-> IF x = Owner THEN "creator"
                                  ELSE IF x = Admin THEN "administrator"
                                  ELSE "member"]
    /\ last = [update |-> NoUpdate, handler |-> NoHandler, before |-> None,
               after_chat_start |-> FALSE, repeated_mute |-> FALSE,
               env |-> NoEnv, result |-> Dropped,
               stored |-> [s \in Sessions |-> None]]

\* Application.process_update: dispatch the update, run its handler, record
\* the conversation's new state.
ProcessUpdate(u, env) ==
    LET key == <<u.chat, u.user>>
        state == conversations[key]
        d == Dispatch(state, u)
        res == Run(d.handler, u, env)
        done == env.api = "ok" /\ Len(res.calls) = 1
        stored == Stored(conversations, key, d, res)
    IN  /\ conversations' = stored
        /\ status' = IF done
                      THEN [status EXCEPT ![u.reply_to] =
                                StatusAfter(res.calls[1].method, status[u.reply_to])]
                      ELSE status
        /\ last' = [update |-> u, handler |-> d.handler, before |-> state,
                    after_chat_start |-> (last.update.kind = "callback"
                                          /\ last.update.data = "chat_start"
                                          /\ last.update.chat = u.chat
                                          /\ last.update.user = u.user),
                    repeated_mute |-> (/\ IsCommand(u, "mute")
                                       /\ IsCommand(last.update, "mute")
                                       /\ last.update.chat = u.chat
                                       /\ last.update.reply_to = u.reply_to
                                       /\ Len(last.result.calls) = 1
                                       /\ last.env.api = "ok"),
                    env |-> env, result |-> res, stored |-> stored]

\* The outcomes of a moderation call: accepted, rejected, or (kick only) no
\* such method on the bot object.
ApiOutcomes(name) ==
    IF name = "kick" THEN {"ok", "error", "missing"} ELSE {"ok", "error"}

ProcessCommand ==
    \E chat \in Chats, user \in Users, name \in CommandNames,
       reply_to \in Users \cup {NoUser}, lookup \in {"ok", "error"},
       api \in {"ok", "error", "missing"} :
        /\ CanWrite(chat, user)
        /\ chat = "pm" => reply_to \in {NoUser, user}
        /\ IF name \in MembershipCommands
           THEN /\ api \in ApiOutcomes(name)
                /\ api = "ok" =>
                      reply_to # NoUser /\ chat = "grp" /\ lookup = "ok"
                      /\ Accepts(name, reply_to)
           ELSE reply_to = NoUser /\ lookup = "ok" /\ api = "error"
        /\ lookup = "error" => chat = "grp"
        /\ ProcessUpdate(Update("command", name, chat, user, reply_to),
                         Env(lookup, api, "ok"))

ProcessCallback ==
    \E chat \in Chats, user \in Users, tag \in CallbackTags,
       lookup \in {"ok", "error"} :
        /\ CanPress(chat, user)
        /\ lookup = "error" => tag = "manage_group" /\ chat = "grp"
        /\ ProcessUpdate(Update("callback", tag, chat, user, NoUser),
                         Env(lookup, "error", "ok"))

ProcessText ==
    \E chat \in Chats, user \in Users, body \in Bodies, gemini \in {"ok", "error"} :
        /\ CanWrite(chat, user)
        /\ ProcessUpdate(Update("text", body, chat, user, NoUser),
                         Env("ok", "error", gemini))

Next == ProcessCommand \/ ProcessCallback \/ ProcessText

Spec == Init /\ [][Next]_vars

\* ------------------------------------------------- the handlers by themselves
\* The callbacks of the conversation, each with the updates its filter
\* accepts: <<callback, kind of update, data>>.
HandlerInputs ==
    {<<"handle_chat", "text", b>> : b \in Bodies}
    \cup {<<"start_chat_mode", "callback", "chat_start">>,
          <<"show_manage_menu", "callback", "manage_group">>,
          <<"help_menu", "callback", "help_menu">>,
          <<"main_menu", "callback", "main_menu">>}

\* A callback of the conversation called on an update its filter accepts,
\* as a caller holding that update would call it, whatever the state of the
\* conversation: what the callback does by itself, the dispatch left aside.
\* The bot's own dict is not touched; last.stored is the dict as the
\* ConversationHandler would leave it on storing the callback's return value
\* under the key of the update.
CallHandler ==
    \E chat \in Chats, user \in Users, h \in HandlerInputs,
       lookup \in {"ok", "error"}, gemini \in {"ok", "error"} :
        LET u == Update(h[2], h[3], chat, user, NoUser)
            env == Env(lookup, "error", gemini)
        IN  /\ IF h[2] = "text" THEN CanWrite(chat, user) ELSE CanPress(chat, user)
            /\ lookup = "error" => h[1] = "show_manage_menu" /\ chat = "grp"
            /\ gemini = "error" => h[1] = "handle_chat"
            /\ last' = [update |-> u, handler |-> h[1],
                        before |-> conversations[<<chat, user>>],
                        after_chat_start |-> FALSE, repeated_mute |-> FALSE,
                        env |-> env, result |-> Run(h[1], u, env),
                        stored |-> Stored(conversations, <<chat, user>>,
                                          [handler |-> h[1], conv |-> TRUE],
                                          Run(h[1], u, env))]
            /\ UNCHANGED <<conversations, status>>

\* The bot, and next to it its conversation callbacks called directly.
HandlerSpec == Init /\ [][Next \/ CallHandler]_vars

\* ================================================================ claims
\* The update processed last, the session it belongs to, what its handler did.
LU == last.update
LR == last.result
LKey == <<LU.chat, LU.user>>
Authorized(x) == status[x] \in {"creator", "administrator"}
IsMembership == LU.kind = "command" /\ LU.data \in MembershipCommands
HandlerOf(name) ==
    IF name = "kick" THEN "kick_user" ELSE IF name = "ban" THEN "ban_user" ELSE "mute_user"
MethodOf(name) ==
    IF name = "kick" THEN "kick_chat_member"
    ELSE IF name = "ban" THEN "ban_chat_member"
    ELSE "restrict_chat_member"
DenialTexts == {"must_be_admin_command", "must_be_admin_menu"}
Texts(replies) == {replies[i].text : i \in 1 .. Len(replies)}

\* C1: pressing the Chat button (chat_start) in a session that is IDLE is
\* handled by start_chat_mode, sends the chat-entry text and leaves the
\* session in CHAT_WITH_SAKURA, and a text message that follows the press is
\* handled by handle_chat.
C1_ChatButtonEntersChat ==
    /\ (LU.kind = "callback" /\ LU.data = "chat_start" /\ last.before = None) =>
          /\ last.handler = "start_chat_mode"
          /\ LR.replies = <<Reply("edit_message_text", "lets_chat", <<>>)>>
          /\ conversations[LKey] = CHAT_WITH_SAKURA
    /\ (LU.kind = "text" /\ last.after_chat_start) => last.handler = "handle_chat"

C3_UnauthorizedDenied ==
    (IsMembership /\ (ChatType(LU.chat) = "private" \/ ~Authorized(LU.user))) =>
        /\ LR.calls = <<>>
        /\ Len(LR.replies) >= 1
        /\ Texts(LR.replies) \subseteq DenialTexts

\* C4: a /kick, /ban or /mute that an administrator or the owner sends in
\* the group as a reply to a target's message makes exactly one moderation
\* call, the one of the command, on the replied-to user, and sends exactly
\* one reply.
C4_OneActionOneReply ==
    (/\ IsMembership /\ LU.chat = "grp" /\ Authorized(LU.user)
     /\ last.env.lookup = "ok" /\ LU.reply_to # NoUser) =>
        /\ LR.calls = <<Call(MethodOf(LU.data), LU.chat, LU.reply_to)>>
        /\ Len(LR.replies) = 1

\* C5: a text message of a session that is chatting (it was in
\* CHAT_WITH_SAKURA, or the Chat button was pressed just before) gets exactly
\* one reply, the completion or the fallback text, and the session is in
\* CHAT_WITH_SAKURA afterwards.
C5_ChatTextAnswered ==
    (LU.kind = "text" /\ (last.before = CHAT_WITH_SAKURA \/ last.after_chat_start)) =>
        /\ Len(LR.replies) = 1
        /\ LR.replies[1].text \in {"gemini_response", "fallback"}
        /\ conversations[LKey] = CHAT_WITH_SAKURA

\* C6: the session of the last update is in CHAT_WITH_SAKURA exactly when
\* that update was the Chat button, or a text message received while in
\* CHAT_WITH_SAKURA; after a command or another menu button it is IDLE.
C6_ChattingIffLastEvent ==
    LU.kind # "none" =>
        /\ conversations[LKey] = CHAT_WITH_SAKURA <=>
              \/ (LU.kind = "callback" /\ LU.data = "chat_start")
              \/ (LU.kind = "text" /\ last.before = CHAT_WITH_SAKURA)
        /\ (LU.kind = "command"
            \/ (LU.kind = "callback"
                /\ LU.data \in {"manage_group", "help_menu", "main_menu"})) =>
              conversations[LKey] = None

\* C7: the Manage button pressed by a user who is not an administrator or
\* owner is answered by a denial, without the management menu, and the
\* session is IDLE; the management menu is sent only to an authorized user.
C7_ManageDeniedForNonAdmin ==
    /\ (LU.kind = "callback" /\ LU.data = "manage_group"
        /\ (ChatType(LU.chat) = "private" \/ ~Authorized(LU.user))) =>
          /\ Len(LR.replies) >= 1
          /\ Texts(LR.replies) \subseteq DenialTexts
          /\ conversations[LKey] = None
    /\ "management" \in Texts(LR.replies) =>
          LU.chat = "grp" /\ Authorized(LU.user) /\ last.env.lookup = "ok"

\* C8: when get_chat_member fails during the authorization check, of a
\* /kick, /ban or /mute command or of the Manage button, no moderation call
\* is made, a denial is sent and no error escapes the handler.
C8_LookupFailureDenied ==
    (/\ last.env.lookup = "error"
     /\ (IsMembership \/ (LU.kind = "callback" /\ LU.data = "manage_group"))) =>
        /\ LR.calls = <<>>
        /\ ~LR.raised
        /\ Len(LR.replies) >= 1
        /\ Texts(LR.replies) \subseteq DenialTexts

\* C9: a /kick, /ban or /mute of an authorized user in the group that
\* replies to no message is answered by the usage hint of the command and
\* makes no moderation call.
C9_NoTargetUsageHint ==
    (/\ IsMembership /\ LU.chat = "grp" /\ Authorized(LU.user)
     /\ last.env.lookup = "ok" /\ LU.reply_to = NoUser) =>
        /\ LR.calls = <<>>
        /\ LR.replies = <<Reply("reply_text", "usage_" \o LU.data, <<>>)>>

\* C9 witness: the administrator sent /ban without replying to a message.
C9_Witness ==
    /\ LU.kind = "command" /\ LU.data = "ban" /\ LU.chat = "grp"
    /\ LU.user = Admin /\ last.env.lookup = "ok" /\ LU.reply_to = NoUser
    /\ last.handler = "ban_user"

\* C10: a /kick, /ban or /mute command is handled by the handler of that
\* command and leaves the state of the session as it was, whether the
\* command was denied, had no target, succeeded or failed.
C10_MembershipKeepsState ==
    IsMembership =>
        /\ last.handler = HandlerOf(LU.data)
        /\ conversations[LKey] = last.before

\* C10 witness: a /mute that silenced its target was processed.
C10_Witness ==
    /\ IsMembership /\ LU.data = "mute"
    /\ last.env.api = "ok" /\ Len(LR.calls) = 1
    /\ status[LU.reply_to] = "restricted"

\* C11: when the platform rejects the moderation call of a /kick, /ban or
\* /mute, the handler catches the error: exactly one reply is sent, the
\* failure text of the command, no success text, and nothing is raised.
C11_RejectionCaught ==
    (IsMembership /\ Len(LR.calls) = 1 /\ last.env.api = "error") =>
        /\ LR.replies = <<Reply("reply_text", "could_not_" \o LU.data, <<>>)>>
        /\ ~LR.raised

\* C11 witness: the platform rejected a /mute aimed at the owner.
C11_Witness ==
    /\ IsMembership /\ LU.data = "mute" /\ LU.reply_to = Owner
    /\ Len(LR.calls) = 1 /\ last.env.api = "error"
    /\ Len(LR.replies) = 1

\* C12: Unmute is an operation of the bot: a press of the Unmute button of
\* the management menu by an authorized user of the group is handled and
\* makes one restrict_chat_member call, after which its target is no longer
\* restricted and can send messages again.
C12_UnmuteRestores ==
    (/\ LU.kind = "callback" /\ LU.data = "unmute_user"
     /\ LU.chat = "grp" /\ Authorized(LU.user)) =>
        /\ last.handler # NoHandler
        /\ Len(LR.calls) = 1
        /\ LR.calls[1].method = "restrict_chat_member"
        /\ status[LR.calls[1].user] # "restricted"

\* C13: a /kick of an authorized user that the platform does not reject
\* removes its target from the group without banning it (the target has
\* left: neither a member nor "kicked", the platform's status of the banned),
\* while a /ban that succeeds leaves its target banned.
C13_KickRemovesWithoutBan ==
    /\ (/\ IsMembership /\ LU.data = "kick" /\ LU.chat = "grp"
        /\ Authorized(LU.user) /\ last.env.lookup = "ok"
        /\ LU.reply_to # NoUser /\ ~Authorized(LU.reply_to)
        /\ last.env.api # "error") =>
          status[LU.reply_to] = "left"
    /\ (/\ IsMembership /\ LU.data = "ban"
        /\ Len(LR.calls) = 1 /\ last.env.api = "ok") =>
          status[LU.reply_to] = "kicked"

\* C14: a button press whose callback tag is none of chat_start,
\* manage_group, help_menu, main_menu is ignored: no handler runs, nothing is
\* sent, no moderation call is made and the session keeps its state. The
\* tags of the management menu's own buttons are among them.
RegisteredTags == {"chat_start", "manage_group", "help_menu", "main_menu"}

C14_UnknownTagIgnored ==
    /\ {"kick_user", "ban_user", "mute_user", "unmute_user"} \cap RegisteredTags = {}
    /\ (LU.kind = "callback" /\ LU.data \notin RegisteredTags) =>
          /\ last.handler = NoHandler
          /\ LR.replies = <<>>
          /\ LR.calls = <<>>
          /\ conversations[LKey] = last.before

\* C14 witness: the administrator pressed the Kick User button of the
\* management menu.
C14_Witness ==
    /\ LU.kind = "callback" /\ LU.data = "kick_user"
    /\ LU.chat = "grp" /\ LU.user = Admin
    /\ last.handler = NoHandler

\* C15: a /mute of an authorized user that repeats, on the same target, the
\* /mute the platform accepted just before is accepted again: it makes its
\* call, gets the success reply like the first, raises nothing, and the
\* status of every user is what it was after the first.
C15_MuteTwice ==
    [][(/\ last'.repeated_mute /\ Authorized(last'.update.user)
        /\ last'.env.lookup = "ok" /\ last'.env.api = "ok") =>
          /\ last'.result.calls =
                <<Call("restrict_chat_member", last'.update.chat, last'.update.reply_to)>>
          /\ last'.result.replies = <<Reply("reply_text", "mute_done", <<>>)>>
          /\ ~last'.result.raised
          /\ status' = status]_vars

\* C15 witness: the second of two successive /mute of the same member.
C15_Witness ==
    /\ last.repeated_mute /\ LU.user = Admin /\ LU.reply_to \in Members
    /\ last.env.api = "ok" /\ Len(LR.replies) = 1
    /\ status[LU.reply_to] = "restricted"

\* C16: handling an update of one session never changes the state of
\* another session, whatever the order in which the updates of the sessions
\* arrive: neither in the bot's dict, nor in the dict as storing the return
\* value of a conversation callback under the update's key leaves it.
C16_SessionsIndependent ==
    [][\A s \in Sessions :
         s # <<last'.update.chat, last'.update.user>> =>
             /\ conversations'[s] = conversations[s]
             /\ last'.stored[s] = conversations[s]]_vars

\* C16 witness: start_chat_mode called on a Chat press of one user of the
\* group; CHAT_WITH_SAKURA is stored for that user's session while the other
\* sessions of the group keep the state they had.
C16_Witness ==
    /\ last.handler = "start_chat_mode" /\ LU.chat = "grp"
    /\ last.stored[LKey] = CHAT_WITH_SAKURA
    /\ \A s \in Sessions : s # LKey => last.stored[s] = None
    /\ \E s \in Sessions : s # LKey /\ s[1] = LU.chat

\* C17: the completion request handle_chat makes for a text holds the fixed
\* persona, the fixed generation parameters and that text alone, with an
\* empty history: it is the same whatever was handled before.
C17_NoConversationMemory ==
    last.handler = "handle_chat" =>
        LR.requests = <<[system |-> "SYSTEM_PROMPT", config |-> "generation_config",
                         history |-> <<>>, message |-> LU.data]>>

\* C17 witness: handle_chat answered the text "ping".
C17_Witness ==
    /\ last.handler = "handle_chat" /\ LU.kind = "text" /\ LU.data = "ping"
    /\ Len(LR.requests) = 1 /\ Len(LR.replies) = 1

\* C18: in a session that is chatting (it was in CHAT_WITH_SAKURA, or the
\* Chat button was pressed just before), a press of Manage, Help or Back is
\* handled and leaves the session IDLE, and a press of Chat leaves it in
\* CHAT_WITH_SAKURA.
C18_NavigationLeavesChat ==
    (LU.kind = "callback" /\ (last.before = CHAT_WITH_SAKURA \/ last.after_chat_start)) =>
        /\ LU.data \in {"manage_group", "help_menu", "main_menu"} =>
              /\ last.handler \in {"show_manage_menu", "help_menu", "main_menu"}
              /\ Len(LR.replies) = 1
              /\ conversations[LKey] = None
        /\ LU.data = "chat_start" => conversations[LKey] = CHAT_WITH_SAKURA

\* C19: a text message that is not a command, received by a session that is
\* IDLE, is not given to handle_chat: no completion request is made, nothing
\* is sent and the session stays IDLE.
C19_IdleTextIgnored ==
    (LU.kind = "text" /\ last.before = None) =>
        /\ last.handler = NoHandler
        /\ LR.requests = <<>>
        /\ LR.replies = <<>>
        /\ conversations[LKey] = None

\* C19 witness: a member wrote "hello" in the group, the Chat button not
\* having been pressed before.
C19_Witness ==
    /\ LU.kind = "text" /\ LU.data = "hello" /\ LU.chat = "grp"
    /\ LU.user \in Members /\ last.before = None /\ ~last.after_chat_start
    /\ last.handler = NoHandler

\* C20: no update makes the bot send more than one message (reply or edit).
\* A denied authorization gives at most one denial: the one of is_admin for
\* a command of a non-admin in the group, the one of show_manage_menu for
\* the Manage button, never both.
C20_AtMostOneMessage ==
    /\ Len(LR.replies) <= 1
    /\ (IsMembership /\ Texts(LR.replies) \cap DenialTexts # {}) =>
          LR.replies = <<Reply("reply_text", "must_be_admin_command", <<>>)>>
    /\ (last.handler = "show_manage_menu" /\ Texts(LR.replies) \cap DenialTexts # {}) =>
          LR.replies = <<Reply("reply_text", "must_be_admin_menu", <<>>)>>

\* C20 witness: show_manage_menu denied a member of the group whose status
\* the platform reported.
C20_Witness ==
    /\ last.handler = "show_manage_menu" /\ LU.chat = "grp"
    /\ LU.user \in Members /\ last.env.lookup = "ok"
    /\ Len(LR.replies) = 1

====
